---- MODULE Spec2Model ----
(***************************************************************************)
(* Model of command_line_version.mjs: a Node.js ES module that reads a     *)
(* file of stock instructions, embeds it in a prompt template, sends the   *)
(* prompt to a completion API and prints the first choice's text.          *)
(*                                                                         *)
(* Strings are sequences of tokens.  A token is one character (" ", "$",   *)
(* "&", "`", "'", "\n"), one whole instruction line of the input file, or  *)
(* one fixed chunk of the prompt template.  The module's top level and the *)
(* async function main are two positions (topPc, mainPc); main's           *)
(* continuations run only when the top level has run to completion, as     *)
(* the JavaScript job queue prescribes.  process.exit ends the process at  *)
(* once: every action is guarded by ~exited.                               *)
(***************************************************************************)
EXTENDS Integers, Sequences, FiniteSets, TLC

VARIABLES apiKey, filePathArg, topPc, mainPc, tplInit, readResult,
          completionResult, stockInstructions, requests, nReads,
          stdout, stderr, exited, exitCode, path, tdzError

vars == <<apiKey, filePathArg, topPc, mainPc, tplInit, readResult,
          completionResult, stockInstructions, requests, nReads,
          stdout, stderr, exited, exitCode, path, tdzError>>

(* ---------------------------- bounds ----------------------------------- *)

\* Longest instruction file, in tokens.
MaxLen == 3

(* ---------------------------- strings ---------------------------------- *)

\* JavaScript's undefined (an unset environment variable, a missing argv[2]).
Undefined == "<undefined>"

\* The mutant tests x === undefined instead of !x.
Falsy_UndefinedOnly(x) == x = Undefined

\* !x for a string-or-undefined x: undefined and "" are falsy.
Falsy(x) == x = Undefined \/ x = ""

\* Three instruction lines of the grammar the template describes; SKU XY is
\* never the subject of a set-stock line.
SetLine == "set-stock AB 100"
AddUninitLine == "add-stock XY 5"
BigOrderLine == "order ON1 AB 200"

Whitespace == {" "}

\* Tokens an instruction file is made of.
FileTokens == {" ", "$", "&", "`", "'", SetLine, AddUninitLine, BigOrderLine}

RECURSIVE SeqsUpTo(_, _)
SeqsUpTo(S, n) ==
    IF n = 0 THEN {<<>>}
    ELSE LET shorter == SeqsUpTo(S, n - 1)
         IN  shorter \cup {Append(s, t) : s \in {x \in shorter : Len(x) = n - 1}, t \in S}

FileContents == SeqsUpTo(FileTokens, MaxLen)

\* String.prototype.trim: drop leading and trailing whitespace.
RECURSIVE TrimStart(_)
TrimStart(s) ==
    IF s # <<>> /\ Head(s) \in Whitespace THEN TrimStart(Tail(s)) ELSE s

RECURSIVE TrimEnd(_)
TrimEnd(s) ==
    IF s # <<>> /\ s[Len(s)] \in Whitespace
    THEN TrimEnd(SubSeq(s, 1, Len(s) - 1))
    ELSE s

Trim(s) == TrimEnd(TrimStart(s))

\* What the template says of an input: a line that adds to or orders a SKU
\* no set-stock line initialised is a requirement "not met".
RaisesHardError(content) ==
    \E i \in 1..Len(content) : content[i] = AddUninitLine

\* The input whose only irregularity is an order larger than the stock.
OrderAloneNegative(content) == content = <<SetLine, BigOrderLine>>

\* stockInstructions.length === 0: the mutant forgets the trim().
IsBlank_NoTrim(content) == Len(content) = 0

\* The mutant validates the instructions itself and refuses an input with a
\* hard error.
IsBlank_Validating(content) ==
    Len(Trim(content)) = 0 \/ RaisesHardError(content)

\* stockInstructions.trim().length === 0
IsBlank(content) == Len(Trim(content)) = 0

(* ------------------------- the prompt template ------------------------- *)

Marker == <<"Here is the import file:">>

TemplateHead == <<"## Objective ... Please summarize the operations ... ---", "\n">>

TemplateTail == <<"\n", "\n", "If requirements are not met, please don't calculate anything and just return the errors.", "\n">>

promptTemplate == TemplateHead \o Marker \o TemplateTail

(* ------------------------ String.prototype.replace --------------------- *)

\* Index of the first occurrence of pat in str, 0 when there is none.
IndexOf(str, pat) ==
    LET hits == {i \in 1..(Len(str) - Len(pat) + 1) :
                    SubSeq(str, i, i + Len(pat) - 1) = pat}
    IN  IF hits = {} THEN 0 ELSE CHOOSE i \in hits : \A j \in hits : i <= j

\* GetSubstitution of ECMA-262 for a string pattern (no captures): in the
\* replacement text "$$" is "$", "$&" the matched text, "$`" the text before
\* the match and "$'" the text after it; any other token stands for itself.
RECURSIVE GetSubstitution(_, _, _, _)
GetSubstitution(matched, str, position, replacement) ==
    IF replacement = <<>> THEN <<>>
    ELSE IF Head(replacement) = "$" /\ Len(replacement) >= 2
    THEN LET c == replacement[2]
             rest == SubSeq(replacement, 3, Len(replacement))
         IN  IF c = "$"
             THEN <<"$">> \o GetSubstitution(matched, str, position, rest)
             ELSE IF c = "&"
             THEN matched \o GetSubstitution(matched, str, position, rest)
             ELSE IF c = "`"
             THEN SubSeq(str, 1, position - 1)
                  \o GetSubstitution(matched, str, position, rest)
             ELSE IF c = "'"
             THEN SubSeq(str, position + Len(matched), Len(str))
                  \o GetSubstitution(matched, str, position, rest)
             ELSE <<"$">> \o GetSubstitution(matched, str, position, Tail(replacement))
    ELSE <<Head(replacement)>>
         \o GetSubstitution(matched, str, position, Tail(replacement))

\* str.replace(pat, replacement) with a string pattern: first occurrence only.
Replace(str, pat, replacement) ==
    LET position == IndexOf(str, pat)
    IN  IF position = 0 THEN str
        ELSE SubSeq(str, 1, position - 1)
             \o GetSubstitution(pat, str, position, replacement)
             \o SubSeq(str, position + Len(pat), Len(str))

generatePrompt(template, instructions) ==
    Replace(template, Marker, Marker \o <<"\n">> \o instructions)

(* ------------------------------ values --------------------------------- *)

\* A thrown or rejected value: an Error, with a response property when the
\* HTTP client received an answer.
NoError == [hasResponse |-> FALSE, status |-> "", data |-> "", message |-> ""]

PlainError(msg) == [hasResponse |-> FALSE, status |-> "", data |-> "", message |-> msg]

HttpError(st, d) == [hasResponse |-> TRUE, status |-> st, data |-> d, message |-> "Request failed"]

\* fs.readFile rejections.
ReadErrors == {PlainError("ENOENT: no such file or directory"),
               PlainError("EISDIR: illegal operation on a directory")}

\* openai.createCompletion rejections: with and without error.response.
CompletionErrors == {HttpError("401", "[object Object]"),
                     PlainError("connect ECONNREFUSED")}

\* Reading a const binding before its declaration ran.
ReferenceError == PlainError("Cannot access 'promptTemplate' before initialization")

\* Reading a property of undefined.
TypeError == PlainError("Cannot read properties of undefined")

\* Texts the completion service may answer with.
TextReport == "Final Stock Levels: AB 100"
TextErrors == "X SKU XY is not initialized"
TextBoth == "X SKU XY is not initialized. Final Stock Levels: AB 100"

Texts == {TextReport, TextErrors, TextBoth}

HasStockSection(text) == text \in {TextReport, TextBoth}

ReportsErrors(text) == text \in {TextErrors, TextBoth}

\* Shapes of a resolved completion: data.choices[0].text present, choices
\* missing, choices empty, first choice without text.
ResponseShapes == {"ok", "noChoices", "emptyChoices", "noText"}

Completions ==
    {[shape |-> "ok", text |-> t] : t \in Texts}
    \cup {[shape |-> sh, text |-> Undefined] : sh \in ResponseShapes \ {"ok"}}

NoCompletion == [shape |-> "none", text |-> Undefined]

\* The mutant reads the answer: a text that reports errors is treated as a
\* failed response.
AccessThrows_Interpreting(completion) ==
    \/ completion.shape \in {"noChoices", "emptyChoices"}
    \/ ReportsErrors(completion.text)

\* Whether evaluating completion.data.choices[0].text throws a TypeError.
AccessThrows(completion) == completion.shape \in {"noChoices", "emptyChoices"}

\* The value of completion.data.choices[0].text as console.log prints it.
FirstChoiceText(completion) ==
    IF completion.shape = "noText" THEN "undefined" ELSE completion.text

Cwd == "/work"

CompletionRequest(prompt) ==
    [model |-> "text-davinci-003", prompt |-> prompt,
     max_tokens |-> 500, temperature |-> "0.6"]

Idle == [state |-> "none", value |-> <<>>, completion |-> NoCompletion, error |-> NoError]

Pending == [Idle EXCEPT !.state = "pending"]

Settled(r) == r.state \in {"resolved", "rejected"}

(* ------------------------------ state ---------------------------------- *)

Init ==
    /\ apiKey \in {Undefined, "", "sk-key"}
    /\ filePathArg \in {Undefined, "", "stock.txt"}
    /\ topPc = "initializeOpenAI"
    /\ mainPc = "notCalled"
    /\ tplInit = FALSE
    /\ readResult = Idle
    /\ completionResult = Idle
    /\ stockInstructions = <<>>
    /\ requests = <<>>
    /\ nReads = 0
    /\ stdout = <<>>
    /\ stderr = <<>>
    /\ exited = FALSE
    /\ exitCode = 0
    /\ path = <<>>
    /\ tdzError = FALSE

\* console.error(message); process.exit(1)
handleError(message) ==
    /\ stderr' = Append(stderr, message)
    /\ exited' = TRUE
    /\ exitCode' = 1

\* The catch block of main.
Catch(error) ==
    IF error.hasResponse
    THEN handleError(<<error.status, error.data>>)
    ELSE handleError(<<"Error:", error.message>>)

\* const openai = initializeOpenAI();
InitializeOpenAI ==
    /\ ~exited
    /\ topPc = "initializeOpenAI"
    /\ path' = Append(path, "initializeOpenAI")
    /\ IF Falsy(apiKey)
       THEN /\ handleError(<<"OpenAI API key not configured">>)
            /\ UNCHANGED topPc
       ELSE /\ topPc' = "callMain"
            /\ UNCHANGED <<stderr, exited, exitCode>>
    /\ UNCHANGED <<apiKey, filePathArg, mainPc, tplInit, readResult,
                   completionResult, stockInstructions, requests, nReads,
                   stdout, tdzError>>

\* main() at the top level: main runs synchronously up to its first await.
CallMain ==
    /\ ~exited
    /\ topPc = "callMain"
    /\ path' = Append(path, "main")
    /\ IF Falsy(filePathArg)
       THEN /\ handleError(<<"Please specify the path to the file containing stock instructions.">>)
            /\ UNCHANGED <<topPc, mainPc, readResult, nReads>>
       ELSE /\ nReads' = nReads + 1
            /\ readResult' = Pending
            /\ mainPc' = "awaitRead"
            /\ topPc' = "promptTemplate"
            /\ UNCHANGED <<stderr, exited, exitCode>>
    /\ UNCHANGED <<apiKey, filePathArg, tplInit, completionResult,
                   stockInstructions, requests, stdout, tdzError>>

\* const promptTemplate = `...`; the last statement of the module.
InitPromptTemplate ==
    /\ ~exited
    /\ topPc = "promptTemplate"
    /\ tplInit' = TRUE
    /\ topPc' = "done"
    /\ path' = Append(path, "promptTemplate")
    /\ UNCHANGED <<apiKey, filePathArg, mainPc, readResult, completionResult,
                   stockInstructions, requests, nReads, stdout, stderr,
                   exited, exitCode, tdzError>>

\* The file system settles the read, at any time after it was issued.
ReadFileSettles ==
    /\ ~exited
    /\ readResult.state = "pending"
    /\ \/ \E content \in FileContents :
             readResult' = [readResult EXCEPT !.state = "resolved", !.value = content]
       \/ \E e \in ReadErrors :
             readResult' = [readResult EXCEPT !.state = "rejected", !.error = e]
    /\ UNCHANGED <<apiKey, filePathArg, topPc, mainPc, tplInit,
                   completionResult, stockInstructions, requests, nReads,
                   stdout, stderr, exited, exitCode, path, tdzError>>

\* The mutant resumes main as soon as the awaited promise settled, as a
\* synchronous read would.
ContinuationMayRun_NoSuspend == TRUE

\* A continuation of main is a job: it runs when the module's top level has
\* run to completion.
ContinuationMayRun == topPc = "done"

\* main from the resolution of the read to the completion request.
MainAfterRead ==
    /\ ~exited
    /\ ContinuationMayRun
    /\ mainPc = "awaitRead"
    /\ Settled(readResult)
    /\ IF readResult.state = "rejected"
       THEN /\ Catch(readResult.error)
            /\ path' = Append(path, "readFailed")
            /\ UNCHANGED <<mainPc, completionResult, stockInstructions,
                           requests, stdout, tdzError>>
       ELSE /\ stockInstructions' = readResult.value
            /\ IF IsBlank(readResult.value)
               THEN /\ handleError(<<"Please enter valid stock instructions in the file.">>)
                    /\ path' = Append(path, "blank")
                    /\ UNCHANGED <<mainPc, completionResult, requests,
                                   stdout, tdzError>>
               ELSE /\ stdout' = Append(stdout, <<"Current working directory:", Cwd>>)
                    /\ IF ~tplInit
                       THEN /\ tdzError' = TRUE
                            /\ Catch(ReferenceError)
                            /\ path' = Append(path, "referenceError")
                            /\ UNCHANGED <<mainPc, completionResult, requests>>
                       ELSE /\ requests' = Append(requests,
                                   CompletionRequest(generatePrompt(promptTemplate, readResult.value)))
                            /\ completionResult' = Pending
                            /\ mainPc' = "awaitCompletion"
                            /\ path' = Append(path, "createCompletion")
                            /\ UNCHANGED <<stderr, exited, exitCode, tdzError>>
    /\ UNCHANGED <<apiKey, filePathArg, topPc, tplInit, readResult, nReads>>

\* The completion service settles the request.
CompletionSettles ==
    /\ ~exited
    /\ completionResult.state = "pending"
    /\ \/ \E c \in Completions :
             completionResult' = [completionResult EXCEPT !.state = "resolved", !.completion = c]
       \/ \E e \in CompletionErrors :
             completionResult' = [completionResult EXCEPT !.state = "rejected", !.error = e]
    /\ UNCHANGED <<apiKey, filePathArg, topPc, mainPc, tplInit, readResult,
                   stockInstructions, requests, nReads, stdout, stderr,
                   exited, exitCode, path, tdzError>>

\* main from the resolution of the request to its end; with nothing left to
\* run the process then exits with status 0.
MainAfterCompletion ==
    /\ ~exited
    /\ ContinuationMayRun
    /\ mainPc = "awaitCompletion"
    /\ Settled(completionResult)
    /\ IF completionResult.state = "rejected"
       THEN /\ Catch(completionResult.error)
            /\ path' = Append(path, "requestFailed")
            /\ UNCHANGED <<mainPc, stdout>>
       ELSE IF AccessThrows(completionResult.completion)
       THEN /\ Catch(TypeError)
            /\ path' = Append(path, "typeError")
            /\ UNCHANGED <<mainPc, stdout>>
       ELSE /\ stdout' = Append(stdout,
                   <<"OpenAI Response:", FirstChoiceText(completionResult.completion)>>)
            /\ mainPc' = "returned"
            /\ exited' = TRUE
            /\ exitCode' = 0
            /\ path' = Append(path, "printResponse")
            /\ UNCHANGED stderr
    /\ UNCHANGED <<apiKey, filePathArg, topPc, tplInit, readResult,
                   completionResult, stockInstructions, requests, nReads,
                   tdzError>>

Next ==
    \/ InitializeOpenAI
    \/ CallMain
    \/ InitPromptTemplate
    \/ ReadFileSettles
    \/ MainAfterRead
    \/ CompletionSettles
    \/ MainAfterCompletion

Spec == Init /\ [][Next]_vars

TypeOK ==
    /\ topPc \in {"initializeOpenAI", "callMain", "promptTemplate", "done"}
    /\ mainPc \in {"notCalled", "awaitRead", "awaitCompletion", "returned"}
    /\ tplInit \in BOOLEAN
    /\ exited \in BOOLEAN
    /\ exitCode \in {0, 1}
    /\ nReads \in 0..1
    /\ Len(requests) <= 1

(* ------------------------------ claims --------------------------------- *)

\* Lines of stdout written by console.log("OpenAI Response:", ...).
ResponseLines == {i \in 1..Len(stdout) : stdout[i][1] = "OpenAI Response:"}

\* The completion resolved and its first choice exists.
FirstChoiceReadable ==
    /\ completionResult.state = "resolved"
    /\ completionResult.completion.shape \in {"ok", "noText"}

\* C1: at most one completion request is issued, and only after the file was
\* read successfully and found non-blank; the line "OpenAI Response: ..." is
\* printed at most once, and only after that request resolved.
C1_OneRequestOneResponse ==
    /\ Len(requests) <= 1
    /\ requests # <<>> =>
          /\ readResult.state = "resolved"
          /\ stockInstructions = readResult.value
          /\ Trim(stockInstructions) # <<>>
    /\ Cardinality(ResponseLines) <= 1
    /\ ResponseLines # {} =>
          /\ Len(requests) = 1
          /\ completionResult.state = "resolved"

C1_Witness ==
    /\ Cardinality(ResponseLines) = 1
    /\ Len(requests) = 1
    /\ Len(stockInstructions) = MaxLen

\* C2: the prompt sent is the template with the file content inserted
\* verbatim on the line after the marker, "$" sequences included, and every
\* other part of the template unchanged.
C2_PromptVerbatim ==
    \A i \in 1..Len(requests) :
        requests[i].prompt =
            TemplateHead \o Marker \o <<"\n">> \o stockInstructions \o TemplateTail

\* C3: the answer is never interpreted: whatever the text of a successful
\* completion, the run takes the same control path, ends with exit status 0
\* and prints that text unchanged, also when the text reports errors.
C3_AnswerNotInterpreted ==
    (/\ exited
     /\ completionResult.state = "resolved"
     /\ completionResult.completion.shape = "ok")
    => /\ path = <<"initializeOpenAI", "main", "promptTemplate",
                   "createCompletion", "printResponse">>
       /\ exitCode = 0
       /\ stderr = <<>>
       /\ stdout[Len(stdout)] = <<"OpenAI Response:", completionResult.completion.text>>

C3_Witness ==
    /\ exited
    /\ completionResult.state = "resolved"
    /\ completionResult.completion.text = TextErrors
    /\ stdout[Len(stdout)] = <<"OpenAI Response:", TextErrors>>

C8_PreconditionFailures ==
    /\ apiKey \in {Undefined, ""} =>
          /\ requests = <<>>
          /\ mainPc = "notCalled"
          /\ exited => /\ stderr = <<<<"OpenAI API key not configured">>>>
                       /\ exitCode = 1
    /\ (apiKey \notin {Undefined, ""} /\ filePathArg \in {Undefined, ""}) =>
          /\ requests = <<>>
          /\ nReads = 0
          /\ exited => /\ stderr = <<<<"Please specify the path to the file containing stock instructions.">>>>
                       /\ exitCode = 1
    /\ (readResult.state = "resolved" /\ Trim(readResult.value) = <<>>) =>
          /\ requests = <<>>
          /\ mainPc = "awaitRead"
          /\ exited => /\ stderr = <<<<"Please enter valid stock instructions in the file.">>>>
                       /\ exitCode = 1

C8_Witness ==
    /\ exited
    /\ readResult.state = "resolved"
    /\ readResult.value = <<" ", " ">>
    /\ stderr # <<>>

\* C9: a run that ends, ends in exactly one of two outcomes: the response
\* line is printed and no error is reported, or an error message is printed
\* and the exit status is 1 with no response line; a failed read and a failed
\* or malformed completion response always end in the second.
C9_TwoOutcomes ==
    exited =>
       LET printed == ResponseLines # {}
           success == printed /\ stderr = <<>> /\ exitCode = 0
           failure == ~printed /\ stderr # <<>> /\ exitCode = 1
       IN  /\ success \/ failure
           /\ ~(success /\ failure)
           /\ (\/ readResult.state = "rejected"
               \/ completionResult.state = "rejected"
               \/ /\ completionResult.state = "resolved"
                  /\ completionResult.completion.shape # "ok") => failure

\* C10: promptTemplate is initialized whenever main reads it: no run meets
\* the uninitialized binding, although main() is called before the
\* declaration of promptTemplate is evaluated.
C10_TemplateInitialized ==
    /\ ~tdzError
    /\ mainPc \in {"awaitCompletion", "returned"} => tplInit
    /\ requests # <<>> => tplInit
    /\ \A i \in 1..Len(stderr) : stderr[i] # <<"Error:", ReferenceError.message>>

C10_Witness ==
    /\ Len(requests) = 1
    /\ tplInit
    /\ requests[1].prompt = generatePrompt(promptTemplate, stockInstructions)

====
